---- MODULE Spec2Model ----
(***************************************************************************)
(* Model of the Podcastr client (frontend/src/App.tsx): the state of the   *)
(* App component, its event handlers, and the HTTP requests the handlers   *)
(* leave in flight.  One action is one run of a handler (or of the         *)
(* continuation of an awaited request) up to its next await; React         *)
(* re-renders between two of them, so every handler reads the state the    *)
(* previous one left.                                                      *)
(*                                                                         *)
(* Not modelled: showProfileEditor, showLog and profile (no property below *)
(* reads them; profile only travels as one more query parameter).          *)
(***************************************************************************)
EXTENDS Integers, Sequences, FiniteSets

(* ---------------------------- bounds ----------------------------------- *)

\* Number of search requests issued in one behaviour (caps the request ids).
MaxSearches == 2

(* ---------------------------- inputs ----------------------------------- *)

\* Texts are sequences of one-character strings.
Whitespace == {" "}

\* What the user types into the query field.
QueryTexts == { <<" ", " ">>, <<" ", "a", " ">> }

\* Keys pressed in the query field.
Keys == {"Enter", "a"}

\* What the user types into the Display Results field.
NumericTexts ==
    { <<>>, <<"0">>, <<"-", "2">>, <<"a">>, <<" ", "1", "a">> }

\* What the user types into the Max Search Results field.
MaxResultsTexts == NumericTexts \cup { <<"3", "0", "1">> }

A1 == [title |-> "t1", score |-> 9]
A2 == [title |-> "t2", score |-> 7]
A3 == [title |-> "t3", score |-> 8]

\* Bodies the search service may answer with.
SearchResponses ==
    { [articles |-> <<A1, A2>>, llm_reasoning |-> "r1"],
      [articles |-> <<A3>>,     llm_reasoning |-> "r2"] }

(* ---------------------------- constants -------------------------------- *)

Null == -1
InitialMaxSearchResults == 50
InitialDisplayResults == 10
FetchError == "Failed to fetch articles. Please try again."
SaveError == "Failed to save articles. Please try again."

(* ---------------------------- pure functions --------------------------- *)

Digits == <<"0", "1", "2", "3", "4", "5", "6", "7", "8", "9">>

IsDigit(c) == \E i \in 1..10 : Digits[i] = c

DigitVal(c) == (CHOOSE i \in 1..10 : Digits[i] = c) - 1

RECURSIVE DropLeadingWs(_)
DropLeadingWs(s) ==
    IF s # <<>> /\ Head(s) \in Whitespace THEN DropLeadingWs(Tail(s)) ELSE s

RECURSIVE DropTrailingWs(_)
DropTrailingWs(s) ==
    IF s # <<>> /\ s[Len(s)] \in Whitespace
    THEN DropTrailingWs(SubSeq(s, 1, Len(s) - 1))
    ELSE s

\* String.prototype.trim
Trim(s) == DropTrailingWs(DropLeadingWs(s))

\* The leading run of decimal digits of s, as a number, with the count of digits.
RECURSIVE ReadDigits(_, _, _)
ReadDigits(s, acc, n) ==
    IF s # <<>> /\ IsDigit(Head(s))
    THEN ReadDigits(Tail(s), 10 * acc + DigitVal(Head(s)), n + 1)
    ELSE [value |-> acc, count |-> n]

\* parseInt(text): leading whitespace skipped, an optional sign, then decimal
\* digits up to the first other character; NaN when there is no digit.
ParseInt(text) ==
    LET s    == DropLeadingWs(text)
        neg  == s # <<>> /\ Head(s) = "-"
        body == IF s # <<>> /\ Head(s) \in {"-", "+"} THEN Tail(s) ELSE s
        d    == ReadDigits(body, 0, 0)
    IN  IF d.count = 0
        THEN [isNaN |-> TRUE, value |-> 0]
        ELSE [isNaN |-> FALSE, value |-> IF neg THEN 0 - d.value ELSE d.value]

\* p || 1 : NaN and 0 are falsy.
OrOne(p) == IF p.isNaN \/ p.value = 0 THEN 1 ELSE p.value

MathMax(a, b) == IF a >= b THEN a ELSE b

NewCountUnclamped(text) == OrOne(ParseInt(text))

\* Math.max(1, parseInt(e.target.value) || 1)
NewCount(text) == MathMax(1, OrOne(ParseInt(text)))

\* encodeURIComponent on the characters of the model's alphabet.
EncodeURIComponent(s) ==
    [i \in DOMAIN s |-> IF s[i] = " " THEN "%20" ELSE s[i]]

\* arts.filter((_, i) => i !== index), index counted from 0.
RECURSIVE FilterOut(_, _)
FilterOut(arts, index) ==
    IF arts = <<>> THEN <<>>
    ELSE IF index = 0 THEN Tail(arts)
    ELSE <<Head(arts)>> \o FilterOut(Tail(arts), index - 1)

(* ---------------------------- state ------------------------------------ *)

VARIABLES
    query, maxSearchResults, displayResults, articles, loading, saving,
    error, expandedCard, llmReasoning,
    searches,    \* GET /search requests in flight
    saves,       \* POST /save requests in flight, oldest first
    issued,      \* number of search requests issued so far
    okIds,       \* history: ids of the searches that succeeded
    shownId,     \* history: id of the search whose response was applied last
    response,    \* history: the response data applied last
    before       \* history: articles and llmReasoning when each search in flight started

ui == <<query, maxSearchResults, displayResults, articles, loading, saving,
        error, expandedCard, llmReasoning>>
net == <<searches, saves>>
hist == <<issued, okIds, shownId, response, before>>
vars == <<ui, net, hist>>

Init ==
    /\ query = <<>>
    /\ maxSearchResults = InitialMaxSearchResults
    /\ displayResults = InitialDisplayResults
    /\ articles = <<>>
    /\ loading = FALSE
    /\ saving = FALSE
    /\ error = ""
    /\ expandedCard = Null
    /\ llmReasoning = ""
    /\ searches = {}
    /\ saves = <<>>
    /\ issued = 0
    /\ okIds = {}
    /\ shownId = 0
    /\ response = [articles |-> <<>>, llm_reasoning |-> ""]
    /\ before = <<>>

(* ---------------------------- rendering -------------------------------- *)

SearchButtonEnabled == ~loading

\* articles.length > 0 && ( cards, Save Articles button )
ResultsRendered == Len(articles) > 0

SaveButtonOutsideResults == ~saving

\* The Save Articles button is inside the results block; disabled={saving}.
SaveButtonEnabled == ResultsRendered /\ ~saving

CardIndexes == 0 .. (Len(articles) - 1)

(* ---------------------------- handlers --------------------------------- *)

SetQuery(text) ==
    /\ query' = text
    /\ UNCHANGED <<maxSearchResults, displayResults, articles, loading, saving,
                   error, expandedCard, llmReasoning, net, hist>>

SetMaxSearchResults(text) ==
    /\ maxSearchResults' = NewCount(text)
    /\ UNCHANGED <<query, displayResults, articles, loading, saving,
                   error, expandedCard, llmReasoning, net, hist>>

SetDisplayResults(text) ==
    /\ displayResults' = NewCount(text)
    /\ UNCHANGED <<query, maxSearchResults, articles, loading, saving,
                   error, expandedCard, llmReasoning, net, hist>>

QueryAcceptedUntrimmed(q) == q # <<>>

\* handleSearch goes on unless !query.trim()
QueryAccepted(q) == Trim(q) # <<>>

\* The GET request handleSearch builds from the current state.
SearchRequest(id) ==
    [id              |-> id,
     path            |-> EncodeURIComponent(query),
     max_results     |-> maxSearchResults,
     display_results |-> displayResults]

\* handleSearch up to its await.
HandleSearch ==
    IF ~QueryAccepted(query)
    THEN UNCHANGED vars
    ELSE /\ issued < MaxSearches
         /\ loading' = TRUE
         /\ error' = ""
         /\ issued' = issued + 1
         /\ searches' = searches \cup {SearchRequest(issued + 1)}
         /\ before' = [i \in DOMAIN before \cup {issued + 1} |->
                           IF i = issued + 1
                           THEN [articles |-> articles, llmReasoning |-> llmReasoning]
                           ELSE before[i]]
         /\ UNCHANGED <<query, maxSearchResults, displayResults, articles,
                        saving, expandedCard, llmReasoning, saves,
                        okIds, shownId, response>>

SearchButtonClick ==
    /\ SearchButtonEnabled
    /\ HandleSearch

\* Query field onKeyPress: e.key === 'Enter' && handleSearch()
QueryKeyPress(key) ==
    IF key = "Enter" THEN HandleSearch ELSE UNCHANGED vars

AppendedArticles(cur, data) == cur \o data.articles

\* setArticles(response.data.articles)
ReceivedArticles(cur, data) == data.articles

\* handleSearch after its await, the request having succeeded.
SearchSucceeds(r, data) ==
    /\ r \in searches
    /\ searches' = searches \ {r}
    /\ articles' = ReceivedArticles(articles, data)
    /\ llmReasoning' = data.llm_reasoning
    /\ loading' = FALSE
    /\ okIds' = okIds \cup {r.id}
    /\ shownId' = r.id
    /\ response' = data
    /\ before' = [i \in DOMAIN before \ {r.id} |-> before[i]]
    /\ UNCHANGED <<query, maxSearchResults, displayResults, saving, error,
                   expandedCard, saves, issued>>

SearchFailsClearingResults(r) ==
    /\ r \in searches
    /\ searches' = searches \ {r}
    /\ error' = FetchError
    /\ loading' = FALSE
    /\ articles' = <<>>
    /\ before' = [i \in DOMAIN before \ {r.id} |-> before[i]]
    /\ UNCHANGED <<query, maxSearchResults, displayResults, saving,
                   expandedCard, llmReasoning, saves, issued, okIds, shownId,
                   response>>

\* handleSearch after its await, the request having failed.
SearchFails(r) ==
    /\ r \in searches
    /\ searches' = searches \ {r}
    /\ error' = FetchError
    /\ loading' = FALSE
    /\ before' = [i \in DOMAIN before \ {r.id} |-> before[i]]
    /\ UNCHANGED <<query, maxSearchResults, displayResults, articles, saving,
                   expandedCard, llmReasoning, saves, issued, okIds, shownId,
                   response>>

\* handleSave up to its await.
SaveButtonClick ==
    /\ SaveButtonEnabled
    /\ saving' = TRUE
    /\ saves' = Append(saves, [body |-> articles])
    /\ UNCHANGED <<query, maxSearchResults, displayResults, articles, loading,
                   error, expandedCard, llmReasoning, searches, hist>>

\* handleSave after its await, the request having succeeded.
SaveSucceeds ==
    /\ saves # <<>>
    /\ saves' = Tail(saves)
    /\ saving' = FALSE
    /\ UNCHANGED <<query, maxSearchResults, displayResults, articles, loading,
                   error, expandedCard, llmReasoning, searches, hist>>

\* handleSave after its await, the request having failed.
SaveFails ==
    /\ saves # <<>>
    /\ saves' = Tail(saves)
    /\ error' = SaveError
    /\ saving' = FALSE
    /\ UNCHANGED <<query, maxSearchResults, displayResults, articles, loading,
                   expandedCard, llmReasoning, searches, hist>>

\* Card onClick.
CardClick(index) ==
    /\ ResultsRendered
    /\ index \in CardIndexes
    /\ expandedCard' = IF expandedCard = index THEN Null ELSE index
    /\ UNCHANGED <<query, maxSearchResults, displayResults, articles, loading,
                   saving, error, llmReasoning, net, hist>>

\* Remove IconButton onClick.
RemoveClick(index) ==
    /\ ResultsRendered
    /\ index \in CardIndexes
    /\ articles' = FilterOut(articles, index)
    /\ UNCHANGED <<query, maxSearchResults, displayResults, loading, saving,
                   error, expandedCard, llmReasoning, net, hist>>

PressKeyInQuery == \E key \in Keys : QueryKeyPress(key)
TypeQuery == \E text \in QueryTexts : SetQuery(text)
TypeMaxSearchResults == \E text \in MaxResultsTexts : SetMaxSearchResults(text)
TypeDisplayResults == \E text \in NumericTexts : SetDisplayResults(text)
SearchResponseArrives == \E r \in searches, data \in SearchResponses : SearchSucceeds(r, data)
SearchErrorArrives == \E r \in searches : SearchFails(r)
ToggleCard == \E index \in CardIndexes : CardClick(index)
RemoveCard == \E index \in CardIndexes : RemoveClick(index)

Next ==
    \/ TypeQuery
    \/ TypeMaxSearchResults
    \/ TypeDisplayResults
    \/ SearchButtonClick
    \/ PressKeyInQuery
    \/ SearchResponseArrives
    \/ SearchErrorArrives
    \/ SaveButtonClick
    \/ SaveSucceeds
    \/ SaveFails
    \/ ToggleCard
    \/ RemoveCard

Spec == Init /\ [][Next]_vars

(* ---------------------------- properties ------------------------------- *)

IsBlank(q) == \A i \in DOMAIN q : q[i] \in Whitespace

RECURSIVE IsSubsequence(_, _)
IsSubsequence(s, t) ==
    IF s = <<>> THEN TRUE
    ELSE IF t = <<>> THEN FALSE
    ELSE IF Head(s) = Head(t) THEN IsSubsequence(Tail(s), Tail(t))
    ELSE IsSubsequence(s, Tail(t))

MaxOf(S) == CHOOSE m \in S : \A n \in S : n <= m

\* Upper bound of max_results in the search contract.
MaxResultsLimit == 300

\* C1: a run of handleSearch (Search button or Enter) while the query is empty
\* or only whitespace sends no GET /search request and leaves loading, error,
\* articles and llmReasoning as they were.
C1_BlankQueryRejected ==
    [][(HandleSearch /\ IsBlank(query))
        => UNCHANGED <<searches, issued, loading, error, articles, llmReasoning>>]_vars

\* C1 witness: a whitespace-only query is in the field, the Search button is
\* enabled, results and an error message are on display, nothing is in flight.
C1_Witness ==
    /\ query # <<>>
    /\ IsBlank(query)
    /\ SearchButtonEnabled
    /\ articles # <<>>
    /\ error # ""
    /\ searches = {}

\* C2: at most one HTTP request of the client is in flight in every reachable
\* state (no two searches, no two saves, no search together with a save).
C2_NoOverlap == Cardinality(searches) + Len(saves) <= 1

\* C3: every search request issued has max_results at most 300 and
\* display_results at most max_results.
C3_RequestUpperBounds ==
    \A r \in searches :
        /\ r.max_results <= MaxResultsLimit
        /\ r.display_results <= r.max_results

\* C4: maxSearchResults and displayResults are integers >= 1 in every reachable
\* state, and every search request carries max_results >= 1 and
\* display_results >= 1.
C4_CountsAtLeastOne ==
    /\ maxSearchResults \in Int /\ maxSearchResults >= 1
    /\ displayResults \in Int /\ displayResults >= 1
    /\ \A r \in searches : r.max_results >= 1 /\ r.display_results >= 1

\* C4 witness: a request is in flight that was issued after both numeric
\* fields were edited down to the lower bound.
C4_Witness ==
    \E r \in searches : r.max_results = 1 /\ r.display_results = 1

\* C5 (as stated): when a search fails, error becomes the fetch-failure text,
\* loading becomes false, no request is issued, and articles and llmReasoning
\* have the values they had when that search was started.
C5_FailureRestoresStartValues ==
    [][\A r \in searches :
         SearchFails(r) =>
            /\ error' = FetchError
            /\ loading' = FALSE
            /\ searches' \subseteq searches
            /\ saves' = saves
            /\ articles' = before[r.id].articles
            /\ llmReasoning' = before[r.id].llmReasoning]_vars

\* C5 (amended): when a search fails, error becomes the fetch-failure text,
\* loading becomes false, no request is issued, and articles and llmReasoning
\* keep the values they had immediately before the failure was handled.
C5_FailureChangesNoResult ==
    [][\A r \in searches :
         SearchFails(r) =>
            /\ error' = FetchError
            /\ loading' = FALSE
            /\ searches' \subseteq searches
            /\ saves' = saves
            /\ articles' = articles
            /\ llmReasoning' = llmReasoning]_vars

\* C5 witness: a search has failed after the user removed a card from the
\* results of an earlier search; the remaining results are still displayed.
C5_Witness ==
    /\ error = FetchError
    /\ ~loading
    /\ searches = {}
    /\ articles # <<>>
    /\ articles # response.articles

\* C6: the displayed list is an order-preserving subsequence of the articles
\* of the response that supplied the current llmReasoning, each entry equal
\* field for field to the one returned.
C6_DisplayedIsSubsequence ==
    /\ llmReasoning = response.llm_reasoning
    /\ IsSubsequence(articles, response.articles)

\* C6 witness: after a search, a removal, a card toggle and a save, one of two
\* returned articles is displayed.
C6_Witness ==
    /\ Len(response.articles) = 2
    /\ Len(articles) = 1
    /\ expandedCard # Null
    /\ saves # <<>>

\* C7: a step that issues or completes a POST /save leaves articles unchanged;
\* the body of an issued save is the article list displayed at that moment,
\* and it is non-empty.
C7_SaveBodyIsDisplayedList ==
    [][(saves' # saves) =>
         /\ articles' = articles
         /\ (Len(saves') > Len(saves) =>
               /\ saves'[Len(saves')].body = articles
               /\ articles # <<>>)]_vars

\* C7 witness: a save is in flight whose body lacks a card the user removed
\* before saving.
C7_Witness ==
    /\ saves # <<>>
    /\ saves[1].body # <<>>
    /\ saves[1].body # response.articles
    /\ IsSubsequence(saves[1].body, response.articles)

\* C8: once no search is in flight and at least one succeeded, the displayed
\* result is the response to the most recently issued successful search.
C8_LatestSearchWins ==
    (searches = {} /\ okIds # {}) => shownId = MaxOf(okIds)

\* C9: expandedCard is null or an index into the current article list, and
\* no step other than a card toggle makes another article the expanded one.
C9_ExpandedCardTracksArticle ==
    /\ [](expandedCard = Null \/ expandedCard \in CardIndexes)
    /\ [][(expandedCard \in CardIndexes /\ ~ToggleCard) =>
            \/ expandedCard' = Null
            \/ /\ expandedCard' \in 0 .. (Len(articles') - 1)
               /\ articles'[expandedCard' + 1] = articles[expandedCard + 1]]_vars

\* C10: whenever a search or a save completes successfully, no failure
\* message is displayed any more.
C10_SuccessClearsError ==
    [][(SearchResponseArrives \/ SaveSucceeds) => error' = ""]_vars

====
